---------------------------- MODULE Spec2Model ----------------------------
(***************************************************************************)
(* A model of ImageSegmentationApp (app.py): the object built by __init__, *)
(* the two Gradio input components wired in create_interface, and          *)
(* process_segmentation, the handler of the "Process Segmentation" button. *)
(*                                                                         *)
(* Images are records [kind, size, px]: size is <<width, height>> and px   *)
(* maps every coordinate <<x, y>> (0-based, x to the right, y downwards)   *)
(* to an 8-bit value.  Python's None is the record None.                   *)
(***************************************************************************)
EXTENDS Integers, Sequences, FiniteSets, TLC

VARIABLES
    model_available,    \* self.model_available
    model,              \* self.model
    image_editor,       \* value of the gr.ImageMask component: background, layers
    replacement_image,  \* value of the gr.Image component
    ret,                \* what the last process_segmentation call returned
    escaped,            \* the exception that call let through to its caller
    caught,             \* the exception its except clause caught and printed
    locals,             \* local variables of that call as it ended
    model_failed        \* history: the model call of some earlier call failed

vars == <<model_available, model, image_editor, replacement_image,
          ret, escaped, caught, locals, model_failed>>

-----------------------------------------------------------------------------
(* Bounds *)

\* An original image, and a layer drawn on it, hold at most MaxArea pixels.
MaxArea == 4

\* A replacement image, and a layer that has not the original's size, hold at
\* most MaxLooseArea pixels.
MaxLooseArea == 1

\* Raw model outputs are multiples of 1/Denom in [0, 1].
Denom == 2

\* Side of the square canvas of the point-extraction model.
Canvas == 6

\* Brush dabs inside the canvas of the point-extraction model.
MaxInner == 3

-----------------------------------------------------------------------------
(* Values *)

None == [kind |-> "None"]

NoCall == [kind |-> "NoCall"]

SAMModel == [kind |-> "SAM", weights |-> "sam2.1_t.pt"]

Area(size) == size[1] * size[2]

Sizes == {s \in (1..MaxArea) \X (1..MaxArea) : Area(s) <= MaxArea}

Coords(size) == (0..(size[1] - 1)) \X (0..(size[2] - 1))

Img(size, px) == [kind |-> "Image", size |-> size, px |-> px]

\* An original image: every pixel has its own value.
OriginalImages ==
    {Img(s, [p \in Coords(s) |-> 10 + 20 * (p[1] + s[1] * p[2])]) : s \in Sizes}

\* A replacement image: one colour (resampling a one-colour image gives that colour).
ReplacementImages ==
    {Img(s, [p \in Coords(s) |-> 200]) : s \in {t \in Sizes : Area(t) <= MaxLooseArea}}

\* A drawn layer: an RGBA image of which only the alpha band is read.
Layer(size, alpha) == [kind |-> "Layer", size |-> size, alpha |-> alpha]

Layers == UNION {{Layer(s, a) : a \in [Coords(s) -> {0, 255}]} : s \in Sizes}

\* The layer lists that may come with a background: no layer, an empty slot, a
\* layer of the background's size, or a small layer of any size.
LayerLists(background) ==
    {<<>>, <<None>>}
    \cup {<<l>> : l \in {m \in Layers : \/ Area(m.size) <= MaxLooseArea
                                        \/ (background # None /\ m.size = background.size)}}

\* The values the gr.ImageMask component hands to process_segmentation.
EditorValues ==
    UNION {{[background |-> b, layers |-> ls] : ls \in LayerLists(b)} :
              b \in OriginalImages \cup {None}}

-----------------------------------------------------------------------------
(* cv2.findContours(mask, RETR_EXTERNAL, CHAIN_APPROX_SIMPLE) *)

(***************************************************************************)
(* As the library does, the scan works on the image with a one-pixel       *)
(* border of zeros around it, and addresses a pixel by its offset: pixel   *)
(* <<x, y>> of an image of width w is cell (y + 1) * (w + 2) + x + 1.      *)
(* Raster order is the order of the cells.                                 *)
(***************************************************************************)
Stride(mask) == mask.size[1] + 2

Cell(stride, p) == (p[2] + 1) * stride + p[1] + 1

Pixel(stride, c) == <<(c % stride) - 1, (c \div stride) - 1>>

\* The offsets of the eight directions of the chain code: 0 = east, then
\* counter-clockwise on the screen (y grows downwards).
CodeDelta(stride, s) ==
    CASE s = 0 -> 1
      [] s = 1 -> 1 - stride
      [] s = 2 -> -stride
      [] s = 3 -> -stride - 1
      [] s = 4 -> -1
      [] s = 5 -> stride - 1
      [] s = 6 -> stride
      [] s = 7 -> stride + 1

Deltas8(stride) == {CodeDelta(stride, s) : s \in 0..7}

Deltas4(stride) == {CodeDelta(stride, s) : s \in {0, 2, 4, 6}}

\* Foreground: the cells of the non-zero pixels.
Foreground(mask) ==
    {Cell(Stride(mask), p) : p \in {q \in DOMAIN mask.px : mask.px[q] # 0}}

RECURSIVE Grow(_, _, _, _)
\* The cells of `cells` reachable from `seen`, whose newest cells are
\* `frontier`, by steps in `deltas`.
Grow(cells, seen, frontier, deltas) ==
    LET next == ({c + d : c \in frontier, d \in deltas} \cap cells) \ seen
    IN IF next = {} THEN seen ELSE Grow(cells, seen \cup next, next, deltas)

RECURSIVE Split(_, _)
\* A set of cells split into its 8-connected parts.
Split(fg, stride) ==
    IF fg = {} THEN {}
    ELSE LET c == CHOOSE d \in fg : TRUE
             blob == Grow(fg, {c}, {c}, Deltas8(stride))
         IN {blob} \cup Split(fg \ blob, stride)

\* The 8-connected foreground blobs.
Blobs(mask) == Split(Foreground(mask), Stride(mask))

\* The background that is 4-connected to the border around the image.
OuterBackground(mask) ==
    LET stride == Stride(mask)
        padded == 0..(stride * (mask.size[2] + 2) - 1)
    IN Grow(padded \ Foreground(mask), {0}, {0}, Deltas4(stride))

\* A blob is external when it does not lie in a hole of another blob: it
\* touches the outer background.
IsExternal(outer, blob, stride) ==
    \E c \in blob, d \in Deltas4(stride) : c + d \in outer

\* The blobs whose outer border RETR_EXTERNAL retrieves.
ExternalBlobs(mask) ==
    LET outer == OuterBackground(mask)
    IN {b \in Blobs(mask) : IsExternal(outer, b, Stride(mask))}

\* The cell of a blob the raster scan meets first.
StartCell(blob) == CHOOSE c \in blob : \A d \in blob : c <= d

\* icvFetchContour's first loop: from west, clockwise, the direction of the first
\* non-zero neighbour of the start cell i0; 4 when it has none.
RECURSIVE FirstNeighbour(_, _, _, _)
FirstNeighbour(fg, stride, i0, s) ==
    LET t == (s - 1) % 8
    IN IF i0 + CodeDelta(stride, t) \in fg \/ t = 4 THEN t
       ELSE FirstNeighbour(fg, stride, i0, t)

\* The border-following search: counter-clockwise from direction s + 1, the
\* direction of the first non-zero neighbour of i3.
RECURSIVE NextNeighbour(_, _, _, _)
NextNeighbour(fg, stride, i3, s) ==
    IF s >= 15 \/ i3 + CodeDelta(stride, (s + 1) % 8) \in fg THEN (s + 1) % 8
    ELSE NextNeighbour(fg, stride, i3, s + 1)

\* The border-following loop under CHAIN_APPROX_SIMPLE: a pixel is written when
\* the direction leaving it differs from the direction that led to it.
RECURSIVE FollowBorder(_, _, _, _, _, _, _, _)
FollowBorder(fg, stride, i0, i1, i3, s, prev_s, pts) ==
    LET t == NextNeighbour(fg, stride, i3, s)
        i4 == i3 + CodeDelta(stride, t)
        out == IF t # prev_s THEN Append(pts, Pixel(stride, i3)) ELSE pts
    IN IF i4 = i0 /\ i3 = i1 THEN out
       ELSE FollowBorder(fg, stride, i0, i1, i4, (t + 4) % 8, t, out)

\* The outer border of the blob whose raster-first cell is i0.
FetchContour(fg, stride, i0) ==
    LET s == FirstNeighbour(fg, stride, i0, 4)
    IN IF s = 4 THEN <<Pixel(stride, i0)>>
       ELSE FollowBorder(fg, stride, i0, i0 + CodeDelta(stride, s), i0, s, (s + 4) % 8, <<>>)

RECURSIVE Ascending(_)
\* The numbers of a set as an ascending sequence.
Ascending(cs) ==
    IF cs = {} THEN <<>>
    ELSE LET c == CHOOSE d \in cs : \A e \in cs : d <= e
         IN <<c>> \o Ascending(cs \ {c})

Reverse(seq) == [i \in 1..Len(seq) |-> seq[Len(seq) + 1 - i]]

\* The contours of the external blobs, as the raster scan discovers them: in
\* the order of their start cells.
FindContours(mask) ==
    LET fg == Foreground(mask)
        stride == Stride(mask)
        order == Ascending({StartCell(b) : b \in ExternalBlobs(mask)})
    IN [i \in 1..Len(order) |-> FetchContour(fg, stride, order[i])]

\* The list the library hands back: in the order of discovery or in the
\* reverse one (newestFirst), depending on its version.
ContourList(found, newestFirst) == IF newestFirst THEN Reverse(found) ELSE found

-----------------------------------------------------------------------------
(* cv2.moments(contour) of a point sequence: Green's formula *)

Prev(contour, i) == IF i = 1 THEN contour[Len(contour)] ELSE contour[i - 1]

Cross(contour, i) ==
    Prev(contour, i)[1] * contour[i][2] - contour[i][1] * Prev(contour, i)[2]

RECURSIVE SumTo(_, _)
SumTo(f, n) == IF n = 0 THEN 0 ELSE f[n] + SumTo(f, n - 1)

Abs(x) == IF x < 0 THEN -x ELSE x

Sign(x) == IF x < 0 THEN -1 ELSE 1

\* m00 = |a00| / 2, m10 = +-a10 / 6, m01 = +-a01 / 6 (all zero when a00 = 0);
\* the record holds 2*m00, 6*m10 and 6*m01, which are integers.
Moments(contour) ==
    LET n == Len(contour)
        a00 == SumTo([i \in 1..n |-> Cross(contour, i)], n)
        a10 == SumTo([i \in 1..n |->
                   Cross(contour, i) * (Prev(contour, i)[1] + contour[i][1])], n)
        a01 == SumTo([i \in 1..n |->
                   Cross(contour, i) * (Prev(contour, i)[2] + contour[i][2])], n)
    IN IF a00 = 0 THEN [m00x2 |-> 0, m10x6 |-> 0, m01x6 |-> 0]
       ELSE [m00x2 |-> Abs(a00), m10x6 |-> Sign(a00) * a10, m01x6 |-> Sign(a00) * a01]

\* A float holding an exact fraction n / d, d > 0.
Frac(n, d) == [n |-> n, d |-> d]

\* The prompt point of one contour: the centroid (m10/m00, m01/m00), or the
\* first vertex when m00 = 0.
PointOf(contour) ==
    LET M == Moments(contour)
    IN IF M.m00x2 # 0
       THEN <<Frac(M.m10x6, 3 * M.m00x2), Frac(M.m01x6, 3 * M.m00x2)>>
       ELSE <<Frac(contour[1][1], 1), Frac(contour[1][2], 1)>>

\* The loop without its else branch: a contour with m00 = 0 gives no point.
PointsOfNonZeroArea(contours) ==
    LET kept == SelectSeq(contours, LAMBDA c : Moments(c).m00x2 # 0)
    IN [i \in 1..Len(kept) |-> PointOf(kept[i])]

\* The loop that fills points: one point per contour, in the list's order.
PointsOf(contours) == [i \in 1..Len(contours) |-> PointOf(contours[i])]

-----------------------------------------------------------------------------
(* Exceptions, messages and the outcome of a step *)

Exception(type, text) == [kind |-> "Exception", type |-> type, text |-> text]

Message(sev, text, detail) == [sev |-> sev, text |-> text, detail |-> detail]

MsgUploadBoth == Message("error", "Please upload both images.", "")

MsgNoMask ==
    Message("error", "No mask drawn. Please draw a mask on the original image.", "")

MsgFallback ==
    Message("warning", "SAM2 model unavailable, using drawn mask as mask.", "")

MsgSuccess == Message("success", "Segmentation completed with SAM2.", "")

\* f"Segmentation error: {e}"
MsgSegmentationError(e) == Message("error", "Segmentation error: ", e.text)

Ok(v) == [ok |-> TRUE, v |-> v]

Raise(e) == [ok |-> FALSE, exc |-> e]

-----------------------------------------------------------------------------
(* The refine step *)

\* The index tuples of an array of the given shape.
Indices(shape) ==
    CASE Len(shape) = 0 -> {<<>>}
      [] Len(shape) = 1 -> {<<i>> : i \in 0..(shape[1] - 1)}
      [] Len(shape) = 2 -> {<<i, j>> : i \in 0..(shape[1] - 1), j \in 0..(shape[2] - 1)}
      [] Len(shape) = 3 -> {<<i, j, k>> : i \in 0..(shape[1] - 1), j \in 0..(shape[2] - 1),
                                          k \in 0..(shape[3] - 1)}

\* np.squeeze: the axes of length 1 are dropped.
Squeeze(arr) ==
    LET kept == SelectSeq(<<1, 2, 3>>, LAMBDA i : arr.shape[i] # 1)
        shape == [k \in 1..Len(kept) |-> arr.shape[kept[k]]]
        full(j) == [i \in 1..3 |->
                      IF \E k \in 1..Len(kept) : kept[k] = i
                      THEN j[CHOOSE k \in 1..Len(kept) : kept[k] = i]
                      ELSE 0]
    IN [shape |-> shape, dtype |-> arr.dtype,
        data |-> [j \in Indices(shape) |-> arr.data[full(j)]]]

\* arr.astype(np.uint8), the factor 255 forgotten.
ScaleWithoutFactor(arr) ==
    [shape |-> arr.shape, dtype |-> "uint8",
     data |-> [j \in DOMAIN arr.data |->
                 IF arr.dtype = "bool" THEN arr.data[j] % 256
                 ELSE (arr.data[j] \div Denom) % 256]]

\* (arr * 255).astype(np.uint8): a bool becomes 0 or 255, a float v becomes
\* 255 * v cut to an integer; the elements hold v as v * Denom (a bool as 0 or 1).
ScaleToUint8(arr) ==
    [shape |-> arr.shape, dtype |-> "uint8",
     data |-> [j \in DOMAIN arr.data |->
                 IF arr.dtype = "bool" THEN (arr.data[j] * 255) % 256
                 ELSE ((arr.data[j] * 255) \div Denom) % 256]]

\* Image.fromarray of a uint8 array: (h, w) gives a w x h image, a 1-D array of
\* length n gives a 1 x n image, a 0-D array has no shape[0].
FromArray(arr) ==
    CASE Len(arr.shape) = 2 ->
           Ok(Img(<<arr.shape[2], arr.shape[1]>>,
                  [p \in Coords(<<arr.shape[2], arr.shape[1]>>) |-> arr.data[<<p[2], p[1]>>]]))
      [] Len(arr.shape) = 1 ->
           Ok(Img(<<1, arr.shape[1]>>,
                  [p \in Coords(<<1, arr.shape[1]>>) |-> arr.data[<<p[2]>>]]))
      [] Len(arr.shape) = 0 -> Raise(Exception("IndexError", "tuple index out of range"))
      [] OTHER -> Raise(Exception("TypeError", "Cannot handle this data type"))

\* What self.model(source=..., points=[points]) may do: raise, return a result
\* without masks, or return one mask as a (1, h, w) array of bools or of floats
\* in [0, 1], of the image's shape or not.
Pattern(size, a, b) ==
    [j \in Indices(<<1, size[2], size[1]>>) |-> IF (j[2] + j[3]) % 2 = 0 THEN a ELSE b]

RawMask(size, dtype, a, b) ==
    [shape |-> <<1, size[2], size[1]>>, dtype |-> dtype, data |-> Pattern(size, a, b)]

ModelOutcomes(original_image) ==
    LET s == original_image.size
    IN {Raise(Exception("RuntimeError", "model failure"))}
       \cup {Ok([masks |-> None])}
       \cup {Ok([masks |-> RawMask(s, "bool", a, b)]) : a \in 0..1, b \in 0..1}
       \cup {Ok([masks |-> RawMask(s, "float32", a, a)]) : a \in 0..Denom}
       \cup {Ok([masks |-> RawMask(<<s[1] + 1, s[2]>>, "bool", 1, 1)])}

\* Lines 66-75: the model call and the decoding of its output.
ModelRefine(original_image, pts, outcome) ==
    IF ~outcome.ok THEN outcome
    ELSE IF outcome.v.masks = None
    THEN Raise(Exception("AttributeError", "'NoneType' object has no attribute 'data'"))
    ELSE LET sam_mask == FromArray(ScaleToUint8(Squeeze(outcome.v.masks)))
         IN IF sam_mask.ok THEN Ok([sam_mask |-> sam_mask.v, model_message |-> MsgSuccess])
            ELSE sam_mask

\* The fallback that reports as the model does.
FallbackRefineAsSuccess(drawn_mask) ==
    [ok |-> TRUE, v |-> [sam_mask |-> drawn_mask, model_message |-> MsgSuccess]]

\* Lines 62-63: the drawn mask is the refined mask.
FallbackRefine(drawn_mask) == Ok([sam_mask |-> drawn_mask, model_message |-> MsgFallback])

\* Line 61: not self.model_available or not self.model
UseFallback(available, mdl) == ~available \/ mdl = None

-----------------------------------------------------------------------------
(* Resizing and compositing (PIL) *)

\* Image.resize: a copy when the size is the same; otherwise the image is
\* resampled, and resampling a one-colour image gives that colour everywhere.
Resize(im, size) ==
    IF im.size = size THEN im
    ELSE Img(size, [p \in Coords(size) |-> im.px[<<0, 0>>]])

\* Paste.c BLEND8: (in1 * (255 - mask) + in2 * mask) / 255, rounded.
Blend8(mask, in1, in2) ==
    LET tmp == in1 * (255 - mask) + in2 * mask + 128
    IN (((tmp \div 256) + tmp) \div 256) % 256

\* Image.composite(original, replacement, mask): the two images exchanged.
CompositeSwapped(image1, image2, mask) ==
    IF mask.size # image1.size
    THEN [ok |-> FALSE, exc |-> Exception("ValueError", "images do not match")]
    ELSE [ok |-> TRUE,
          v |-> Img(image2.size,
                    [p \in Coords(image2.size) |->
                        IF p \in Coords(image1.size)
                        THEN Blend8(mask.px[p], image1.px[p], image2.px[p])
                        ELSE image2.px[p]])]

\* A paste that crops or pads the mask to the image instead of refusing it.
CompositeCropping(image1, image2, mask) ==
    [ok |-> TRUE,
     v |-> Img(image2.size,
               [p \in Coords(image2.size) |->
                   IF p \in Coords(image1.size) /\ p \in Coords(mask.size)
                   THEN Blend8(mask.px[p], image2.px[p], image1.px[p])
                   ELSE image2.px[p]])]

\* Image.composite(image1, image2, mask): a copy of image2 with image1 pasted
\* through mask; the paste refuses a mask that has not image1's size.
Composite(image1, image2, mask) ==
    IF mask.size # image1.size
    THEN Raise(Exception("ValueError", "images do not match"))
    ELSE Ok(Img(image2.size,
                [p \in Coords(image2.size) |->
                    IF p \in Coords(image1.size)
                    THEN Blend8(mask.px[p], image2.px[p], image1.px[p])
                    ELSE image2.px[p]]))

-----------------------------------------------------------------------------
(* process_segmentation *)

\* The local variables of a call that the properties speak of: the library
\* calls made so far, points, results (what the model call returned) and
\* sam_mask (the mask handed to Image.composite).
Locals(done, pts, results, sam_mask) ==
    [steps |-> done, points |-> pts, results |-> results, sam_mask |-> sam_mask]

NoLocals == Locals({}, <<>>, None, None)

\* How a call, or the body of its try statement, ends: it returns v, or it
\* raises exc; caught is the exception the except clause printed.
Returned(value, loc) ==
    [ok |-> TRUE, v |-> value, exc |-> None, caught |-> None, loc |-> loc]

Raised(e, loc) ==
    [ok |-> FALSE, v |-> <<>>, exc |-> e, caught |-> None, loc |-> loc]

\* Line 35: image_editor["layers"][0]
LayerZero(editor) ==
    IF Len(editor.layers) = 0
    THEN Raise(Exception("IndexError", "list index out of range"))
    ELSE Ok(editor.layers[1])

\* Lines 38-39: drawn_mask.split()[-1], the alpha band as a single-band image.
AlphaBand(layer) ==
    IF layer = None
    THEN Raise(Exception("AttributeError", "'NoneType' object has no attribute 'split'"))
    ELSE Ok(Img(layer.size, layer.alpha))

\* Lines 41-54: the point lists the call can get, one for each order the
\* contour list can have.
ExtractPoints(drawn_mask, orders) ==
    LET found == FindContours(drawn_mask)
    IN {PointsOf(ContourList(found, newestFirst)) : newestFirst \in orders}

\* if points is None: never so, points is a list.
NoPointsIsNone(pts) == pts = None

\* Line 57: if not points
NoPoints(pts) == Len(pts) = 0

\* Lines 60-75.
Refine(available, mdl, original_image, pts, drawn_mask, outcome) ==
    IF UseFallback(available, mdl) THEN FallbackRefine(drawn_mask)
    ELSE ModelRefine(original_image, pts, outcome)

\* Lines 77-82.  An attribute of None (size, resize) is an AttributeError.
CompositeAndReturn(original_image, replacement, drawn_mask, refined, loc) ==
    LET resized == Resize(replacement, original_image.size)
        result_image == Composite(resized, original_image, refined.sam_mask)
        here == Locals(loc.steps \cup {"resize", "composite"}, loc.points, loc.results,
                       refined.sam_mask)
    IN IF original_image = None \/ replacement = None
       THEN Raised(Exception("AttributeError", "'NoneType' object has no attribute"),
                   Locals(loc.steps, loc.points, loc.results, refined.sam_mask))
       ELSE IF ~result_image.ok THEN Raised(result_image.exc, here)
       ELSE Returned(<<drawn_mask, refined.sam_mask, result_image.v, refined.model_message>>,
                     here)

\* Lines 60-82 for one outcome of the model call.
RefineAndComposite(available, mdl, original_image, replacement, drawn_mask, pts, outcome) ==
    LET fallback == UseFallback(available, mdl)
        done == {"split", "findContours", IF fallback THEN "fallback" ELSE "model"}
        results == IF fallback \/ ~outcome.ok THEN None ELSE outcome.v
        refined == Refine(available, mdl, original_image, pts, drawn_mask, outcome)
    IN IF ~refined.ok THEN Raised(refined.exc, Locals(done, pts, results, None))
       ELSE CompositeAndReturn(original_image, replacement, drawn_mask, refined.v,
                               Locals(done, pts, results, None))

\* Lines 56-82, once the points are at hand: the ways the call can end, one
\* for each outcome the model call can have.
FromPoints(available, mdl, original_image, replacement, drawn_mask, pts, outcomes) ==
    IF NoPoints(pts)
    THEN {Returned(<<None, None, original_image, MsgNoMask>>,
                   Locals({"split", "findContours"}, pts, None, None))}
    ELSE {RefineAndComposite(available, mdl, original_image, replacement,
                             drawn_mask, pts, outcome) : outcome \in outcomes}

\* Lines 41-82: the same for each point list the extraction can give.
FromDrawnMask(available, mdl, original_image, replacement, drawn_mask, orders, outcomes) ==
    UNION {FromPoints(available, mdl, original_image, replacement, drawn_mask, pts, outcomes) :
              pts \in ExtractPoints(drawn_mask, orders)}

\* Lines 33-82: the body of the try statement.
TryBody(available, mdl, editor, replacement, orders, outcomes) ==
    LET layer == LayerZero(editor)
        drawn_mask == AlphaBand(layer.v)
    IN IF ~layer.ok THEN {Raised(layer.exc, NoLocals)}
       ELSE IF ~drawn_mask.ok THEN {Raised(drawn_mask.exc, NoLocals)}
       ELSE FromDrawnMask(available, mdl, editor.background, replacement,
                          drawn_mask.v, orders, outcomes)

\* except ValueError as e: any other exception leaves the call.
CatchValueError(r) ==
    IF r.ok \/ r.exc.type # "ValueError" THEN r
    ELSE [ok |-> TRUE, v |-> <<None, None, None, MsgSegmentationError(r.exc)>>,
          exc |-> None, caught |-> r.exc, loc |-> r.loc]

\* An except clause that returns the mask computed before the failure.
CatchKeepingMask(r) ==
    IF r.ok THEN r
    ELSE [ok |-> TRUE, v |-> <<None, r.loc.sam_mask, None, MsgSegmentationError(r.exc)>>,
          exc |-> None, caught |-> r.exc, loc |-> r.loc]

\* Lines 83-86: except Exception as e.
Catch(r) ==
    IF r.ok THEN r
    ELSE [ok |-> TRUE, v |-> <<None, None, None, MsgSegmentationError(r.exc)>>,
          exc |-> None, caught |-> r.exc, loc |-> r.loc]

\* The check with and for or: one missing image passes it.
MissingInputBoth(editor, replacement) == editor.background = None /\ replacement = None

\* Line 30.
MissingInput(editor, replacement) == editor.background = None \/ replacement = None

\* The ways a call can end.
process_segmentation(available, mdl, editor, replacement, orders, outcomes) ==
    IF MissingInput(editor, replacement)
    THEN {Returned(<<None, None, None, MsgUploadBoth>>, NoLocals)}
    ELSE {Catch(r) : r \in TryBody(available, mdl, editor, replacement, orders, outcomes)}

-----------------------------------------------------------------------------
(* The application *)

\* __init__: the weights load, or they do not.
Init ==
    /\ \/ model_available = TRUE /\ model = SAMModel
       \/ model_available = FALSE /\ model = None
    /\ image_editor = [background |-> None, layers |-> <<>>]
    /\ replacement_image = None
    /\ ret = NoCall
    /\ escaped = None
    /\ caught = None
    /\ locals = NoLocals
    /\ model_failed = FALSE

\* What the last call left is forgotten when an input changes.
Forget ==
    /\ ret' = NoCall
    /\ escaped' = None
    /\ caught' = None
    /\ locals' = NoLocals

\* The user uploads or clears the original image, or draws on it.
SetImageEditor ==
    /\ image_editor' \in EditorValues
    /\ Forget
    /\ UNCHANGED <<model_available, model, replacement_image, model_failed>>

\* The user uploads or clears the replacement image.
SetReplacement ==
    /\ replacement_image' \in ReplacementImages \cup {None}
    /\ Forget
    /\ UNCHANGED <<model_available, model, image_editor, model_failed>>

\* The outcomes the model call can have for the current inputs.
Outcomes ==
    IF image_editor.background = None THEN {Raise(Exception("RuntimeError", "model failure"))}
    ELSE ModelOutcomes(image_editor.background)

\* Whether the model call of a call raised.
ModelCallFailed(r) ==
    "model" \in r.loc.steps /\ "composite" \notin r.loc.steps /\ (r.caught # None \/ ~r.ok)

\* A call that gives up the model once its model call has raised.
EndCallDroppingModel(r) ==
    /\ ret' = (IF r.ok THEN [kind |-> "Returned", value |-> r.v] ELSE NoCall)
    /\ escaped' = r.exc
    /\ caught' = r.caught
    /\ locals' = r.loc
    /\ model_failed' = (model_failed \/ ModelCallFailed(r))
    /\ model_available' = (model_available /\ ~ModelCallFailed(r))
    /\ model' = (IF ModelCallFailed(r) THEN None ELSE model)
    /\ UNCHANGED <<image_editor, replacement_image>>

\* A call ends as r: nothing of self, and neither input, is assigned.
EndCall(r) ==
    /\ ret' = (IF r.ok THEN [kind |-> "Returned", value |-> r.v] ELSE NoCall)
    /\ escaped' = r.exc
    /\ caught' = r.caught
    /\ locals' = r.loc
    /\ model_failed' = (model_failed \/ ModelCallFailed(r))
    /\ UNCHANGED <<model_available, model, image_editor, replacement_image>>

\* The button: process_segmentation(image_editor, replacement_image).
Click ==
    \E r \in process_segmentation(model_available, model, image_editor,
                                  replacement_image, BOOLEAN, Outcomes) :
       EndCall(r)

Next == SetImageEditor \/ SetReplacement \/ Click

Spec == Init /\ [][Next]_vars

-----------------------------------------------------------------------------
(* Point extraction on its own: lines 38-54 applied to a drawn canvas *)

CanvasSize == <<Canvas, Canvas>>

\* The stroke along the edge of the canvas.
Frame ==
    {p \in Coords(CanvasSize) : p[1] \in {0, Canvas - 1} \/ p[2] \in {0, Canvas - 1}}

\* A drawing: the frame stroke or not, and at most MaxInner dabs inside it.
Drawings ==
    {(IF framed THEN Frame ELSE {}) \cup dabs :
        framed \in BOOLEAN,
        dabs \in {d \in SUBSET (Coords(CanvasSize) \ Frame) : Cardinality(d) <= MaxInner}}

CanvasLayer(painted) ==
    Layer(CanvasSize, [p \in Coords(CanvasSize) |-> IF p \in painted THEN 255 ELSE 0])

InitPoints ==
    /\ model_available = FALSE
    /\ model = None
    /\ image_editor \in {[background |-> None, layers |-> <<CanvasLayer(d)>>] : d \in Drawings}
    /\ replacement_image = None
    /\ ret = NoCall
    /\ escaped = None
    /\ caught = None
    /\ locals = NoLocals
    /\ model_failed = FALSE

\* Lines 35-54 on the canvas.
ExtractStep ==
    /\ locals = NoLocals
    /\ \E pts \in ExtractPoints(AlphaBand(LayerZero(image_editor).v).v, BOOLEAN) :
          locals' = Locals({"split", "findContours"}, pts, None, None)
    /\ UNCHANGED <<model_available, model, image_editor, replacement_image,
                   ret, escaped, caught, model_failed>>

NextPoints == ExtractStep

SpecPoints == InitPoints /\ [][NextPoints]_vars

-----------------------------------------------------------------------------
(* Names used by the properties *)

Called == ret # NoCall

Background == image_editor.background

DrawnLayerPresent == Len(image_editor.layers) > 0 /\ image_editor.layers[1] # None

DrawnLayer == image_editor.layers[1]

\* The alpha band of layer 0 has a painted pixel, so it yields a prompt point.
SomethingDrawn == DrawnLayerPresent /\ \E p \in DOMAIN DrawnLayer.alpha : DrawnLayer.alpha[p] # 0

NothingDrawn == DrawnLayerPresent /\ \A p \in DOMAIN DrawnLayer.alpha : DrawnLayer.alpha[p] = 0

InputsPresent == Background # None /\ replacement_image # None

\* The call returned a Failure that carries no image.
FailureWithoutImages ==
    /\ Called
    /\ ret.value[1] = None /\ ret.value[2] = None /\ ret.value[3] = None
    /\ ret.value[4].sev = "error"

\* The call returned drawn mask, refined mask and result image.
Success ==
    /\ Called
    /\ caught = None
    /\ "composite" \in locals.steps

\* The pixel of the replacement image resized to the original's size.
ResizedPixel == replacement_image.px[<<0, 0>>]

\* The result image selects, pixel by pixel, by the mask.
SelectedByMask(result, mask) ==
    /\ result.size = Background.size
    /\ DOMAIN result.px = Coords(Background.size)
    /\ \A p \in DOMAIN result.px :
          /\ mask.px[p] = 0 => result.px[p] = Background.px[p]
          /\ mask.px[p] = 255 => result.px[p] = ResizedPixel

-----------------------------------------------------------------------------
(* C1 *)

\* C1: whatever the inputs (original and replacement present or null, layer 0
\* present, null or missing, model loaded or not, model call returning or
\* raising), a call returns a list of four values, the drawn mask, the refined
\* mask and the result image (each an image or None) and a message, and no
\* exception reaches the caller.
C1_AlwaysReturnsFour ==
    /\ escaped = None
    /\ locals # NoLocals => Called
    /\ Called =>
          /\ Len(ret.value) = 4
          /\ \A i \in 1..3 : ret.value[i] = None \/ ret.value[i].kind = "Image"
          /\ ret.value[4].sev \in {"error", "warning", "success"}

\* A call in which the model call raised, and which returned all the same.
C1_Witness ==
    /\ Called
    /\ caught # None
    /\ caught.type = "RuntimeError"
    /\ "model" \in locals.steps

-----------------------------------------------------------------------------
(* C2 *)

\* C2: when the original image or the replacement image is None, the call
\* returns [None, None, None, "Please upload both images."] and does nothing
\* else: no mask or point extraction, no model call, no compositing.
C2_MissingInputStopsCall ==
    (Called /\ (Background = None \/ replacement_image = None)) =>
        /\ ret.value = <<None, None, None, MsgUploadBoth>>
        /\ locals = NoLocals
        /\ caught = None

\* A call without original image, with a painted layer, a replacement image and
\* a loaded model.
C2_Witness ==
    /\ Called
    /\ Background = None
    /\ replacement_image # None
    /\ SomethingDrawn
    /\ model_available

-----------------------------------------------------------------------------
(* C3 *)

\* A step after the validation fails, judged by the inputs and by what the
\* model call returned.
StepFails ==
    /\ InputsPresent
    /\ \/ ~DrawnLayerPresent
       \/ /\ "model" \in locals.steps
          /\ \/ locals.results = None
             \/ locals.results.masks = None
             \/ Area(locals.results.masks.shape) = 1
       \/ /\ "composite" \in locals.steps
          /\ locals.sam_mask.size # Background.size

\* C3: a failure at any step after the validation (layer access, model call,
\* decoding of its output, compositing) gives a Failure whose three image
\* slots are None and whose message holds the error's text; no mask computed
\* before the failure is returned.
C3_FailureCarriesNoImage ==
    /\ (Called /\ StepFails) => caught # None
    /\ caught # None =>
          /\ FailureWithoutImages
          /\ caught.text # ""
          /\ ret.value[4] = Message("error", "Segmentation error: ", caught.text)

\* The compositing failed after drawn mask and refined mask had been computed.
C3_Witness ==
    /\ Called
    /\ caught # None
    /\ "composite" \in locals.steps
    /\ locals.sam_mask # None

-----------------------------------------------------------------------------
(* C4 *)

\* C4: with both images present and nothing painted on layer 0 (no prompt
\* point), the call returns [None, None, original image, "No mask drawn..."],
\* and neither the model, nor the fallback, nor the compositor runs.
C4_NoMaskDrawn ==
    (Called /\ InputsPresent /\ (NothingDrawn \/ ("findContours" \in locals.steps
                                                  /\ locals.points = <<>>))) =>
        /\ ret.value = <<None, None, Background, MsgNoMask>>
        /\ locals.steps = {"split", "findContours"}
        /\ locals.points = <<>>
        /\ locals.results = None
        /\ locals.sam_mask = None
        /\ caught = None

\* Such a call with a loaded model.
C4_Witness ==
    /\ Called
    /\ InputsPresent
    /\ NothingDrawn
    /\ model_available
    /\ Area(Background.size) > 1

-----------------------------------------------------------------------------
(* C5 *)

\* The call went to the refine step without a model.
FallbackCase ==
    /\ Called
    /\ InputsPresent
    /\ UseFallback(model_available, model)
    /\ SomethingDrawn

\* Success with the drawn mask as refined mask, the composite through it and
\* the warning.
FallbackSuccess ==
    /\ caught = None
    /\ locals.steps = {"split", "findContours", "fallback", "resize", "composite"}
    /\ ret.value[1] = Img(DrawnLayer.size, DrawnLayer.alpha)
    /\ ret.value[2] = ret.value[1]
    /\ ret.value[3] # None
    /\ SelectedByMask(ret.value[3], ret.value[2])
    /\ ret.value[4] = MsgFallback
    /\ ret.value[4].sev = "warning"

\* C5 as stated: without a model, a drawn mask that yields a prompt point
\* always gives Success with refined mask = drawn mask, the composite through
\* it and a warning.
C5_FallbackAlwaysSucceeds == FallbackCase => FallbackSuccess

\* C5, amended: without a model, a drawn mask that yields a prompt point and
\* has the original image's width and height gives Success with refined mask =
\* drawn mask, the composite through it and a warning.
C5_FallbackSucceedsOnSameSize ==
    (FallbackCase /\ DrawnLayer.size = Background.size) => FallbackSuccess

\* Such a call on a drawn mask that has painted and unpainted pixels.
C5_Witness ==
    /\ FallbackCase
    /\ DrawnLayer.size = Background.size
    /\ \E p \in DOMAIN DrawnLayer.alpha : DrawnLayer.alpha[p] = 0
    /\ ret.value[4] = MsgFallback

-----------------------------------------------------------------------------
(* C6 *)

AllPixels(mask, v) == \A p \in DOMAIN mask.px : mask.px[p] = v

\* The result image of a Success is the composite through the refined mask.
CompositedByMask ==
    Success =>
        /\ SelectedByMask(ret.value[3], ret.value[2])
        /\ AllPixels(ret.value[2], 0) => ret.value[3] = Background
        /\ AllPixels(ret.value[2], 255) =>
              ret.value[3] = Resize(replacement_image, Background.size)

\* C6: the result image of a call is, pixel by pixel, the original where the
\* mask is 0 and the replacement resized to the original's size where it is
\* 255 (so the original under an all-zero mask, the resized replacement under
\* an all-255 mask), and the call leaves both input images as they were.
C6_CompositeSelectsByMask ==
    [][Called' =>
          /\ image_editor' = image_editor
          /\ replacement_image' = replacement_image
          /\ CompositedByMask']_vars

\* A Success whose mask has pixels of both kinds and whose replacement image
\* had to be resized.
C6_Witness ==
    /\ Success
    /\ \E p \in DOMAIN ret.value[2].px : ret.value[2].px[p] = 0
    /\ \E p \in DOMAIN ret.value[2].px : ret.value[2].px[p] = 255
    /\ replacement_image.size # Background.size

-----------------------------------------------------------------------------
(* C7 *)

\* A Success on the model-backed path.
ModelSuccess == Success /\ "model" \in locals.steps

\* The raw model output at pixel p.
RawAt(p) == locals.results.masks.data[<<0, p[2], p[1]>>]

RawIsBoolean == locals.results.masks.dtype = "bool"

-----------------------------------------------------------------------------
(* C9 *)

\* The mask handed to Image.composite has not the original's size.
MaskSizeMismatch ==
    /\ Called
    /\ InputsPresent
    /\ \/ locals.sam_mask # None /\ locals.sam_mask.size # Background.size
       \/ FallbackCase /\ DrawnLayer.size # Background.size

\* C9: when the mask handed to compositing has not the original's size (drawn
\* layer on the fallback path, model output on the model path), the call
\* returns a Failure without images; no result image is made from a cropped,
\* padded or resized mask.
C9_SizeMismatchFails ==
    MaskSizeMismatch =>
        /\ FailureWithoutImages
        /\ caught # None
        /\ caught.type = "ValueError"

\* A model output wider than the original.
C9_Witness ==
    /\ MaskSizeMismatch
    /\ "model" \in locals.steps
    /\ locals.sam_mask.size[1] > Background.size[1]

-----------------------------------------------------------------------------
(* C10 *)

\* The refine step of the call that just ended used the model.
UsedModel == "model" \in locals.steps

UsedFallback == "fallback" \in locals.steps

\* C10: no step changes model_available or model, a call that reaches the
\* refine step uses the model when model_available was set at construction
\* and the fallback, with the warning, when it was not; so a failed model call
\* does not turn later calls to the fallback.
C10_ProviderIsFixed ==
    [][/\ model_available' = model_available
       /\ model' = model
       /\ UsedModel' => model_available /\ model # None
       /\ UsedFallback' => ~model_available
       /\ (UsedFallback' /\ Success') => ret'.value[4] = MsgFallback]_vars

\* A call that uses the model after an earlier call's model call had failed.
C10_Witness ==
    /\ model_failed
    /\ Called
    /\ UsedModel
    /\ Success
    /\ ret.value[4] = MsgSuccess

-----------------------------------------------------------------------------
(* C8 *)

\* Point extraction has run on the drawn canvas.
Extracted == "findContours" \in locals.steps

DrawnMask == Img(DrawnLayer.size, DrawnLayer.alpha)

\* The contour findContours follows around a blob.
ContourOf(blob) == FetchContour(Foreground(DrawnMask), Stride(DrawnMask), StartCell(blob))

HasArea(blob) == Moments(ContourOf(blob)).m00x2 # 0

\* The point lies within the blob's bounding box.
InBoundingBox(pt, blob) ==
    LET pixels == {Pixel(Stride(DrawnMask), c) : c \in blob}
    IN \A k \in 1..2 :
          /\ \E q \in pixels : q[k] * pt[k].d <= pt[k].n
          /\ \E q \in pixels : q[k] * pt[k].d >= pt[k].n

\* The point is the centroid of the blob's contour, or the contour's first
\* vertex when m00 = 0.
IsPointOfBlob(pt, blob) ==
    LET contour == ContourOf(blob)
        M == Moments(contour)
    IN /\ pt[1].d > 0 /\ pt[2].d > 0
       /\ IF M.m00x2 # 0
          THEN /\ pt[1].n * 3 * M.m00x2 = M.m10x6 * pt[1].d
               /\ pt[2].n * 3 * M.m00x2 = M.m01x6 * pt[2].d
          ELSE /\ pt[1].n = contour[1][1] * pt[1].d
               /\ pt[2].n = contour[1][2] * pt[2].d

\* The blobs in the order findContours meets them, or in the reverse order.
InDiscoveryOrder(blobs, i, reversed) ==
    LET order == Ascending({StartCell(b) : b \in blobs})
        at == IF reversed THEN Len(order) + 1 - i ELSE i
    IN CHOOSE b \in blobs : StartCell(b) = order[at]

=============================================================================
